---- MODULE Spec2Model ----
(***************************************************************************)
(* Model of AttendanceApp (src/V3-ImageAPP-V2-S.py): a roster of roll      *)
(* numbers, reference face encodings, the encodings detected in a group    *)
(* image and the two-column attendance table, driven by the five button    *)
(* handlers.  Every handler runs to completion before the next one (a      *)
(* single-threaded Qt event loop), so each handler is one action.          *)
(*                                                                         *)
(* A cell of text is a sequence of one-character strings, so that pandas'  *)
(* column conversion can be computed.  A face encoding is a point on a     *)
(* line and the distance between two encodings is their difference, in     *)
(* tenths, so that tolerance=0.5 is 5.                                     *)
(***************************************************************************)
EXTENDS Integers, Sequences, FiniteSets, TLC

VARIABLES
    roll_numbers,             \* self.roll_numbers
    known_face_encodings,     \* self.known_face_encodings
    known_face_roll_numbers,  \* self.known_face_roll_numbers
    group_face_encodings,     \* self.group_face_encodings
    table,                    \* self.table: rows of [roll, att]
    status_label,             \* self.status_label's text (its template)
    present_roll_numbers,     \* the local set of the last matching pass
    written,                  \* the rows the last handler wrote to the export file
    op,                       \* the handler that ran last
    outcome,                  \* how it ended
    csv_arg,                  \* the roster file the last handler read
    folder_arg,               \* the folder the last handler read
    image_arg,                \* the group image the last handler read
    marked_before,            \* the roll numbers shown 'P' when the last handler began
    sequel,                   \* how the last handler follows the one before it
    alive                     \* the process is still running

vars == <<roll_numbers, known_face_encodings, known_face_roll_numbers,
          group_face_encodings, table, status_label, present_roll_numbers,
          written, op, outcome, csv_arg, folder_arg, image_arg, marked_before,
          sequel, alive>>

stores == <<roll_numbers, known_face_encodings, known_face_roll_numbers,
            group_face_encodings, table>>

----------------------------------------------------------------------------
(* Bounds of the model *)

MaxRoster == 2
MaxFaces == 2

(* tolerance=0.5, in tenths *)
Tolerance == 5

----------------------------------------------------------------------------
(* Helpers *)

Range(s) == {s[i] : i \in 1..Len(s)}

SeqsUpTo(S, n) == UNION {[1..k -> S] : k \in 0..n}

Min(S) == CHOOSE m \in S : \A n \in S : m <= n

----------------------------------------------------------------------------
(* The roster file *)

Digits == {"0", "1", "2", "3", "4", "5", "6", "7", "8", "9"}

(* The cells a 'Roll Number' column is drawn from *)
RawCells == {<<"0", "1">>, <<"x">>}

IsInt(c) == Len(c) > 0 /\ \A i \in 1..Len(c) : c[i] \in Digits

(* str(int(c)): the decimal text of the number, without leading zeros *)
RECURSIVE IntStr(_)
IntStr(c) == IF Len(c) > 1 /\ c[1] = "0" THEN IntStr(Tail(c)) ELSE c

(* pd.read_csv infers int64 for a column whose cells are all integers and
   keeps the text otherwise; .astype(str).tolist() renders it again *)
AsTypeStr(cells) ==
    IF Len(cells) > 0 /\ \A i \in 1..Len(cells) : IsInt(cells[i])
    THEN [i \in 1..Len(cells) |-> IntStr(cells[i])]
    ELSE cells

(* A roster file: unreadable, without the column, or with it *)
CsvFiles ==
    {[kind |-> k, cells |-> <<>>] : k \in {"unreadable", "nocolumn"}}
    \cup {[kind |-> "roster", cells |-> c] : c \in SeqsUpTo(RawCells, MaxRoster)}

NoCsv == [kind |-> "none", cells |-> <<>>]

(* DataFrame(attendance_data, columns=["Roll Number", "Attendance"]).to_csv:
   the file's 'Roll Number' column holds the first item of each pair, as text
   (its 'Attendance' column is read by no handler) *)
to_csv(rows) == [kind |-> "exported", cells |-> [r \in 1..Len(rows) |-> rows[r][1]]]

(* The files the roster dialog can return: any roster file, right after
   save_attendance wrote it the attendance file, and the file opened last *)
OpenableCsvFiles ==
    CsvFiles
        \cup (IF op = "save_attendance" /\ outcome = "ok" THEN {to_csv(written)} ELSE {})
        \cup (IF op = "load_roll_numbers" THEN {csv_arg} ELSE {})

(* Absent without setRowCount(0): the rows are inserted after the earlier ones *)
Absent_appending(rolls) ==
    table \o [i \in 1..Len(rolls) |-> [roll |-> rolls[i], att |-> "A"]]

(* Absent, but a row keeps the 'P' the table showed at its position: the
   rebuild that merges with the earlier table *)
Absent_keeping(rolls) ==
    [i \in 1..Len(rolls) |->
        [roll |-> rolls[i],
         att |-> IF i <= Len(table) /\ table[i].att = "P" THEN "P" ELSE "A"]]

(* The table load_roll_numbers builds: one row per roll number, 'A' *)
Absent(rolls) == [i \in 1..Len(rolls) |-> [roll |-> rolls[i], att |-> "A"]]

----------------------------------------------------------------------------
(* The reference folder *)

Exts == <<".jpg", ".jpeg", ".png">>

NoFile == [kind |-> "missing", faces |-> <<>>]
BadFile == [kind |-> "corrupt", faces |-> <<>>]
Image(f) == [kind |-> "image", faces |-> f]

(* What a folder holds under one roll number's three file names *)
Profiles ==
    { <<NoFile, NoFile, NoFile>>,
      <<Image(<<0>>), NoFile, NoFile>>,
      <<NoFile, Image(<<4, 0>>), Image(<<0>>)>>,
      <<Image(<<>>), NoFile, Image(<<0>>)>>,
      <<BadFile, NoFile, Image(<<4>>)>> }

NoFolder == [id \in {} |-> <<NoFile, NoFile, NoFile>>]

(* The encodings a group image can show *)
FaceEncodings == {1, 9}

NoImage == [decodes |-> FALSE, faces |-> <<>>]

GroupImages ==
    {NoImage} \cup {[decodes |-> TRUE, faces |-> f] : f \in SeqsUpTo(FaceEncodings, MaxFaces)}

----------------------------------------------------------------------------
Init ==
    /\ roll_numbers = <<>>
    /\ known_face_encodings = <<>>
    /\ known_face_roll_numbers = <<>>
    /\ group_face_encodings = <<>>
    /\ table = <<>>
    /\ status_label = "Status: Ready"
    /\ present_roll_numbers = {}
    /\ written = <<>>
    /\ op = "__init__"
    /\ outcome = "ok"
    /\ csv_arg = NoCsv
    /\ folder_arg = NoFolder
    /\ image_arg = NoImage
    /\ marked_before = {}
    /\ sequel = "other"
    /\ alive = TRUE

(* The roll numbers of the rows that show 'P' *)
MarkedPresent(tbl) == {tbl[r].roll : r \in {q \in 1..Len(tbl) : tbl[q].att = "P"}}

(* The record of which handler ran and on which input *)
Began(name, csv, folder, image) ==
    /\ op' = name
    /\ csv_arg' = csv
    /\ folder_arg' = folder
    /\ image_arg' = image
    /\ marked_before' = MarkedPresent(table)
    /\ sequel' = IF op = name /\ csv_arg = csv /\ folder_arg = folder /\ image_arg = image
                 THEN "repeat"
                 ELSE IF op = "process_image" /\ outcome = "ok"
                 THEN "after_process_image"
                 ELSE "other"

load_roll_numbers ==
    /\ alive
    /\ \E file \in OpenableCsvFiles :
        /\ Began("load_roll_numbers", file, NoFolder, NoImage)
        /\ present_roll_numbers' = {}
        /\ written' = <<>>
        /\ UNCHANGED <<known_face_encodings, known_face_roll_numbers,
                       group_face_encodings, alive>>
        /\ \/ /\ file.kind = "unreadable"
              /\ outcome' = "error"
              /\ status_label' = "Error loading CSV: {e}"
              /\ UNCHANGED <<roll_numbers, table>>
           \/ /\ file.kind = "nocolumn"
              /\ outcome' = "error"
              /\ status_label' = "CSV must contain 'Roll Number' column."
              /\ UNCHANGED <<roll_numbers, table>>
           \/ /\ file.kind \in {"roster", "exported"}
              /\ outcome' = "ok"
              /\ roll_numbers' = AsTypeStr(file.cells)
              /\ status_label' = "Loaded {n} roll numbers."
              /\ table' = Absent(roll_numbers')

(* A dialog was dismissed: file_path / folder_path is empty and the handler
   (load_roll_numbers, load_reference_images or load_image) does nothing *)
Dismissed ==
    /\ alive
    /\ UNCHANGED vars

----------------------------------------------------------------------------
(* load_reference_images *)

(* FirstExisting, but a file without a face does not end the search: the first
   file name whose image gives an encoding *)
FirstExisting_with_face(profile) ==
    LET found == {e \in 1..Len(Exts) :
                    profile[e].kind = "image" /\ profile[e].faces # <<>>}
    IN  IF found = {} THEN 0 ELSE Min(found)

(* The first of the three file names that exists, 0 when none does *)
FirstExisting(profile) ==
    LET found == {e \in 1..Len(Exts) : profile[e].kind # "missing"}
    IN  IF found = {} THEN 0 ELSE Min(found)

(* The file the extension loop settles on for one roll number *)
Resolved(folder, roll) ==
    LET e == FirstExisting(folder[roll])
    IN  IF e = 0 THEN NoFile ELSE folder[roll][e]

(* The roster position at which load_image_file raises, Len + 1 when none *)
RaisesAt(rolls, folder) ==
    LET bad == {i \in 1..Len(rolls) : Resolved(folder, rolls[i]).kind = "corrupt"}
    IN  IF bad = {} THEN Len(rolls) + 1 ELSE Min(bad)

(* Appended without the two lists being emptied first: the entries follow the
   ones already held *)
RECURSIVE Appended_extending(_, _, _)
Appended_extending(rolls, folder, n) ==
    IF n = 0
    THEN [i \in 1..Len(known_face_encodings) |->
            [roll |-> known_face_roll_numbers[i], enc |-> known_face_encodings[i]]]
    ELSE LET file == Resolved(folder, rolls[n])
             rest == Appended_extending(rolls, folder, n - 1)
         IN  IF file.kind = "image" /\ file.faces # <<>>
             THEN Append(rest, [roll |-> rolls[n], enc |-> file.faces[1]])
             ELSE rest

(* The [roll, enc] entries appended while the first n roll numbers are processed *)
RECURSIVE Appended(_, _, _)
Appended(rolls, folder, n) ==
    IF n = 0 THEN <<>>
    ELSE LET file == Resolved(folder, rolls[n])
             rest == Appended(rolls, folder, n - 1)
         IN  IF file.kind = "image" /\ file.faces # <<>>
             THEN Append(rest, [roll |-> rolls[n], enc |-> file.faces[1]])
             ELSE rest

(* The status text the loop body leaves for one roll number *)
RollStatus(folder, roll) ==
    LET file == Resolved(folder, roll)
    IN  IF file.kind = "missing" THEN "No image found for Roll Number: {roll_number}"
        ELSE IF file.faces # <<>> THEN "Loaded encoding for Roll Number: {roll_number}"
        ELSE "No face found in image: {image_path}"

Folders(rolls) == [Range(rolls) -> Profiles]

(* self.known_face_encodings after the appends *)
appended_encodings(entries) == [i \in 1..Len(entries) |-> entries[i].enc]

(* appended_roll_numbers, but the roll number is appended whether or not its
   image gave an encoding *)
appended_roll_numbers_every(entries) == roll_numbers

(* self.known_face_roll_numbers after the appends *)
appended_roll_numbers(entries) == [i \in 1..Len(entries) |-> entries[i].roll]

load_reference_images ==
    /\ alive
    /\ \E folder \in Folders(roll_numbers) :
        LET stop == RaisesAt(roll_numbers, folder)
            entries == Appended(roll_numbers, folder, stop - 1)
        IN  /\ Began("load_reference_images", NoCsv, folder, NoImage)
            /\ present_roll_numbers' = {}
            /\ written' = <<>>
            /\ known_face_encodings' = appended_encodings(entries)
            /\ known_face_roll_numbers' = appended_roll_numbers(entries)
            /\ UNCHANGED <<roll_numbers, group_face_encodings, table>>
            /\ \/ /\ stop > Len(roll_numbers)
                  /\ outcome' = "ok"
                  /\ status_label' = "Loaded {loaded_count} face encodings from reference images."
                  /\ UNCHANGED alive
               \/ /\ stop <= Len(roll_numbers)
                  \* load_image_file raises inside the slot: nothing catches it
                  /\ outcome' = "raised"
                  /\ status_label' = IF stop = 1 THEN status_label
                                     ELSE RollStatus(folder, roll_numbers[stop - 1])
                  \* PyQt5 >= 5.5 aborts the process, older versions print and go on
                  /\ alive' \in BOOLEAN

----------------------------------------------------------------------------
(* The matching pass of process_image and update_attendance *)

Abs(n) == IF n < 0 THEN -n ELSE n

(* face_recognition.face_distance(encodings, e) *)
face_distance(encodings, e) == [i \in 1..Len(encodings) |-> Abs(encodings[i] - e)]

(* compare_faces with a strict comparison: a distance equal to the tolerance
   is no match *)
compare_faces_strict(encodings, e, tolerance) ==
    [i \in 1..Len(encodings) |-> face_distance(encodings, e)[i] < tolerance]

(* face_recognition.compare_faces(encodings, e, tolerance) *)
compare_faces(encodings, e, tolerance) ==
    [i \in 1..Len(encodings) |-> face_distance(encodings, e)[i] <= tolerance]

(* argmin that returns the last position of the least element *)
argmin_last(d) ==
    CHOOSE i \in 1..Len(d) :
        /\ \A j \in 1..Len(d) : d[i] <= d[j]
        /\ \A j \in (i + 1)..Len(d) : d[j] > d[i]

(* np.argmin: the first position of the least element *)
argmin(d) == Min({i \in 1..Len(d) : \A j \in 1..Len(d) : d[i] <= d[j]})

(* best_match_index without the -1 of the empty case: the index returned for
   an empty list is no index of it *)
best_match_index_unguarded(encodings, e) ==
    LET face_distances == face_distance(encodings, e)
    IN  IF Len(face_distances) > 0 THEN argmin(face_distances) ELSE 0

(* best_match_index, 1-based, with the code's -1 for an empty list *)
best_match_index(encodings, e) ==
    LET face_distances == face_distance(encodings, e)
    IN  IF Len(face_distances) > 0 THEN argmin(face_distances) ELSE -1

(* The loop body's test: best_match_index != -1 and matches[best_match_index] *)
Accepted(encodings, e) ==
    LET b == best_match_index(encodings, e)
    IN  b # -1 /\ compare_faces(encodings, e, Tolerance)[b]

(* The detected encodings at which the loop body indexes outside matches or
   outside the roll numbers (an IndexError) *)
IndexErrors(encodings, rolls, detected) ==
    {k \in 1..Len(detected) :
        LET b == best_match_index(encodings, detected[k])
        IN  /\ b # -1
            /\ \/ b \notin 1..Len(encodings)
               \/ compare_faces(encodings, detected[k], Tolerance)[b] /\ b \notin 1..Len(rolls)}

(* process_image's loop over detected_face_encodings: present_roll_numbers *)
process_image_present(detected) ==
    {known_face_roll_numbers[best_match_index(known_face_encodings, detected[k])] :
        k \in {j \in 1..Len(detected) : Accepted(known_face_encodings, detected[j])}}

(* process_image's loop over the rows without its else branch: a row that is
   not matched keeps what it showed *)
process_image_marked_merge(tbl, present) ==
    [r \in 1..Len(tbl) |->
        [roll |-> tbl[r].roll, att |-> IF tbl[r].roll \in present THEN "P" ELSE tbl[r].att]]

(* process_image's loop over the table's rows *)
process_image_marked(tbl, present) ==
    [r \in 1..Len(tbl) |->
        [roll |-> tbl[r].roll, att |-> IF tbl[r].roll \in present THEN "P" ELSE "A"]]

(* The status text one turn of process_image's matching loop leaves *)
process_image_face_status(e) ==
    IF Accepted(known_face_encodings, e)
    THEN "Detected and matched Roll Number: {matched_roll_number}"
    ELSE "A detected face did not match any known roll numbers."

(* image is None, but the stored faces and the marks are cleared before the
   return *)
image_is_None_clearing ==
    /\ group_face_encodings' = <<>>
    /\ table' = [r \in 1..Len(table) |-> [roll |-> table[r].roll, att |-> "A"]]
    /\ UNCHANGED alive

(* image is None: the return leaves everything but the status text *)
image_is_None ==
    UNCHANGED <<group_face_encodings, table, alive>>

process_image ==
    /\ alive
    /\ \E image \in GroupImages :
        /\ Began("process_image", NoCsv, NoFolder, image)
        /\ written' = <<>>
        /\ UNCHANGED <<roll_numbers, known_face_encodings, known_face_roll_numbers>>
        /\ \/ /\ ~image.decodes
              /\ outcome' = "error"
              /\ status_label' = "Failed to load image."
              /\ present_roll_numbers' = {}
              /\ image_is_None
           \/ /\ image.decodes /\ Len(image.faces) = 0
              /\ outcome' = "nofaces"
              /\ status_label' = "No faces detected in the image."
              /\ present_roll_numbers' = {}
              /\ UNCHANGED <<group_face_encodings, table, alive>>
           \/ /\ image.decodes /\ Len(image.faces) > 0
              /\ group_face_encodings' = image.faces
              /\ LET errors == IndexErrors(known_face_encodings, known_face_roll_numbers,
                                           image.faces)
                 IN  IF errors = {}
                     THEN /\ outcome' = "ok"
                          /\ present_roll_numbers' = process_image_present(image.faces)
                          /\ table' = process_image_marked(table, present_roll_numbers')
                          /\ status_label' = "Processed image. Detected {n} face(s)."
                          /\ UNCHANGED alive
                     ELSE /\ outcome' = "raised"
                          /\ present_roll_numbers' =
                                process_image_present(SubSeq(image.faces, 1, Min(errors) - 1))
                          /\ status_label' =
                                IF Min(errors) = 1 THEN status_label
                                ELSE process_image_face_status(image.faces[Min(errors) - 1])
                          /\ alive' \in BOOLEAN
                          /\ UNCHANGED table

----------------------------------------------------------------------------
(* update_attendance *)

(* update_attendance_present without the matches[best_match_index] test: the
   nearest roll number is taken however far it is *)
update_attendance_present_nearest(detected) ==
    {known_face_roll_numbers[best_match_index(known_face_encodings, detected[k])] :
        k \in {j \in 1..Len(detected) : known_face_encodings # <<>>}}

(* update_attendance's loop over self.group_face_encodings: present_roll_numbers *)
update_attendance_present(detected) ==
    {known_face_roll_numbers[best_match_index(known_face_encodings, detected[k])] :
        k \in {j \in 1..Len(detected) : Accepted(known_face_encodings, detected[j])}}

(* update_attendance's loop over the rows without its else branch *)
update_attendance_marked_merge(tbl, present) ==
    [r \in 1..Len(tbl) |->
        [roll |-> tbl[r].roll, att |-> IF tbl[r].roll \in present THEN "P" ELSE tbl[r].att]]

(* update_attendance's loop over the table's rows *)
update_attendance_marked(tbl, present) ==
    [r \in 1..Len(tbl) |->
        [roll |-> tbl[r].roll, att |-> IF tbl[r].roll \in present THEN "P" ELSE "A"]]

(* The status text one turn of update_attendance's matching loop leaves *)
update_attendance_face_status(e) ==
    IF Accepted(known_face_encodings, e)
    THEN "Updated and marked Present: {matched_roll_number}"
    ELSE "A detected face did not match any known roll numbers."

(* The guard without its test: the pass runs on an empty list too *)
no_group_image_untested == FALSE

(* if not self.group_face_encodings *)
no_group_image == group_face_encodings = <<>>

update_attendance ==
    /\ alive
    /\ Began("update_attendance", NoCsv, NoFolder, NoImage)
    /\ written' = <<>>
    /\ UNCHANGED <<roll_numbers, known_face_encodings, known_face_roll_numbers,
                   group_face_encodings>>
    /\ \/ /\ no_group_image
          /\ outcome' = "noimage"
          /\ status_label' = "No group image processed yet."
          /\ present_roll_numbers' = {}
          /\ UNCHANGED <<table, alive>>
       \/ /\ ~no_group_image
          /\ LET errors == IndexErrors(known_face_encodings, known_face_roll_numbers,
                                       group_face_encodings)
             IN  IF errors = {}
                 THEN /\ outcome' = "ok"
                      /\ present_roll_numbers' = update_attendance_present(group_face_encodings)
                      /\ table' = update_attendance_marked(table, present_roll_numbers')
                      /\ status_label' = "Attendance updated based on processed group image."
                      /\ UNCHANGED alive
                 ELSE /\ outcome' = "raised"
                      /\ present_roll_numbers' =
                            update_attendance_present(
                                SubSeq(group_face_encodings, 1, Min(errors) - 1))
                      /\ status_label' =
                            IF Min(errors) = 1 THEN status_label
                            ELSE update_attendance_face_status(
                                    group_face_encodings[Min(errors) - 1])
                      /\ alive' \in BOOLEAN
                      /\ UNCHANGED table

----------------------------------------------------------------------------
(* save_attendance *)

(* attendance_data, but a row is appended only when it shows 'P' *)
attendance_data_present_only(tbl) ==
    LET shown == SelectSeq(tbl, LAMBDA row : row.att = "P")
    IN  [r \in 1..Len(shown) |-> <<shown[r].roll, shown[r].att>>]

(* attendance_data, but the rows are walked from the last to the first *)
attendance_data_reversed(tbl) ==
    [r \in 1..Len(tbl) |-> <<tbl[Len(tbl) + 1 - r].roll, tbl[Len(tbl) + 1 - r].att>>]

(* attendance_data: one [roll_number, attendance_status] per row *)
attendance_data(tbl) == [r \in 1..Len(tbl) |-> <<tbl[r].roll, tbl[r].att>>]

save_attendance ==
    /\ alive
    /\ Began("save_attendance", NoCsv, NoFolder, NoImage)
    /\ present_roll_numbers' = {}
    /\ UNCHANGED <<stores, alive>>
    /\ \/ /\ Len(roll_numbers) = 0
          /\ outcome' = "noroster"
          /\ status_label' = "No roll numbers loaded. Please load the roll numbers CSV first."
          /\ written' = <<>>
       \/ /\ Len(roll_numbers) # 0
          /\ \E to_csv_ok \in BOOLEAN :
                IF to_csv_ok
                THEN /\ outcome' = "ok"
                     /\ written' = attendance_data(table)
                     /\ status_label' = "Attendance saved to {new_filename}"
                ELSE /\ outcome' = "error"
                     /\ written' = <<>>
                     /\ status_label' = "Error saving attendance: {e}"

----------------------------------------------------------------------------
Next ==
    \/ load_roll_numbers
    \/ load_reference_images
    \/ process_image
    \/ update_attendance
    \/ save_attendance
    \/ Dismissed

Spec == Init /\ [][Next]_vars

----------------------------------------------------------------------------
(* Properties *)

(* The last handler was a matching pass that ran to its end *)
MatchPass == op \in {"process_image", "update_attendance"} /\ outcome = "ok"

(* The distance from reference i to a detected encoding *)
Dist(i, e) == IF known_face_encodings[i] >= e THEN known_face_encodings[i] - e
              ELSE e - known_face_encodings[i]

(* Reference i is the one selected for encoding e: no reference is nearer and
   none before it is as near *)
Nearest(i, e) ==
    /\ \A k \in 1..Len(known_face_encodings) : Dist(i, e) <= Dist(k, e)
    /\ \A k \in 1..(i - 1) : Dist(k, e) > Dist(i, e)

(* C1: after process_image succeeds with at least one detected face, or
   update_attendance runs on non-empty stored faces, every row is 'P' if and
   only if its roll number is in the pass's present set and 'A' otherwise,
   whatever it showed before. *)
C1_TotalOverwrite ==
    MatchPass =>
        \A r \in 1..Len(table) :
            table[r].att = IF table[r].roll \in present_roll_numbers THEN "P" ELSE "A"

(* A pass that turned a 'P' row to 'A' and an 'A' row to 'P' *)
C1_Witness ==
    /\ MatchPass
    /\ \E r \in 1..Len(table) : table[r].att = "A" /\ table[r].roll \in marked_before
    /\ \E r \in 1..Len(table) : table[r].att = "P" /\ table[r].roll \notin marked_before

(* C2, as stated: the present set is the set of roll numbers whose reference is
   the nearest one to some detected encoding at a distance below the tolerance. *)
C2_BelowTolerance ==
    MatchPass =>
        present_roll_numbers =
            {known_face_roll_numbers[i] :
                i \in {n \in 1..Len(known_face_encodings) :
                        \E j \in 1..Len(group_face_encodings) :
                            /\ Nearest(n, group_face_encodings[j])
                            /\ Dist(n, group_face_encodings[j]) < Tolerance}}

(* C2, amended: the present set is the set of roll numbers whose reference is
   the nearest one to some detected encoding (the first of several equally
   near) at a distance of at most the tolerance; an encoding whose least
   distance is above the tolerance adds nothing, and a roll number matched by
   several encodings is in the set once. *)
C2_AtMostTolerance ==
    MatchPass =>
        present_roll_numbers =
            {known_face_roll_numbers[i] :
                i \in {n \in 1..Len(known_face_encodings) :
                        \E j \in 1..Len(group_face_encodings) :
                            /\ Nearest(n, group_face_encodings[j])
                            /\ Dist(n, group_face_encodings[j]) <= Tolerance}}

(* A pass in which one encoding is accepted at exactly the tolerance and
   another below it *)
C2_Witness ==
    /\ MatchPass
    /\ \E i \in 1..Len(known_face_encodings), j \in 1..Len(group_face_encodings) :
          /\ Nearest(i, group_face_encodings[j])
          /\ Dist(i, group_face_encodings[j]) = Tolerance
          /\ known_face_roll_numbers[i] \in present_roll_numbers
    /\ \E i \in 1..Len(known_face_encodings), j \in 1..Len(group_face_encodings) :
          /\ Nearest(i, group_face_encodings[j])
          /\ Dist(i, group_face_encodings[j]) < Tolerance

(* C3: after a successful load_roll_numbers the table has one row per roll
   number of the file, in the file's order, each 'A', whatever the table held. *)
C3_RebuiltAbsent ==
    (op = "load_roll_numbers" /\ outcome = "ok") =>
        /\ Len(roll_numbers) = Len(csv_arg.cells)
        /\ Len(table) = Len(roll_numbers)
        /\ \A r \in 1..Len(table) :
              table[r].roll = roll_numbers[r] /\ table[r].att = "A"

(* A roster loaded over a table that showed one of its roll numbers 'P' *)
C3_Witness ==
    /\ op = "load_roll_numbers" /\ outcome = "ok"
    /\ \E r \in 1..Len(table) : table[r].roll \in marked_before

(* C4: when the group image decodes and holds no face, every row is 'A' after
   the action. *)
C4_ZeroFacesClear ==
    (op = "process_image" /\ outcome = "nofaces") =>
        \A r \in 1..Len(table) : table[r].att = "A"

(* C5: a handler that ends in an error leaves the roster, the reference set,
   the detected faces and the table as they were. *)
C5_ErrorsLeaveStores ==
    [][outcome' \in {"error", "raised"} => stores' = stores]_vars

(* C6: no exception leaves a handler, and the application goes on. *)
C6_NoEscape == outcome # "raised" /\ alive

(* C7: with no reference loaded, a pass over a non-empty list of detected
   encodings ends normally with an empty present set and every row 'A'. *)
C7_EmptyReferences ==
    (/\ op \in {"process_image", "update_attendance"}
     /\ outcome \in {"ok", "raised"}
     /\ known_face_encodings = <<>>) =>
        /\ outcome = "ok"
        /\ present_roll_numbers = {}
        /\ \A r \in 1..Len(table) : table[r].att = "A"

(* A pass without references that turned a 'P' row to 'A' *)
C7_Witness ==
    /\ MatchPass
    /\ known_face_encodings = <<>>
    /\ group_face_encodings # <<>>
    /\ \E r \in 1..Len(table) : table[r].roll \in marked_before

(* C8, as stated: in every reachable state a row that shows 'P' has its roll
   number in the reference set. *)
C8_PresentInReferences ==
    \A r \in 1..Len(table) :
        table[r].att = "P" => table[r].roll \in Range(known_face_roll_numbers)

(* C8, amended: a row is turned to 'P' only by a pass that finds its roll number
   in the reference set, so right after every matching pass each row that shows
   'P' has its roll number in the reference set. *)
C8_MarkedFromReferences ==
    /\ MatchPass =>
          \A r \in 1..Len(table) :
              table[r].att = "P" => table[r].roll \in Range(known_face_roll_numbers)
    /\ MarkedPresent(table) \subseteq
          marked_before \cup (IF MatchPass THEN Range(known_face_roll_numbers) ELSE {})

(* A pass that marked one row 'P' and left 'A' a row whose roll number has no
   reference *)
C8_Witness ==
    /\ MatchPass
    /\ \E r \in 1..Len(table) : table[r].att = "P"
    /\ \E r \in 1..Len(table) :
          table[r].att = "A" /\ table[r].roll \notin Range(known_face_roll_numbers)

(* C9: whenever the group image decodes, the stored detected faces are
   afterwards exactly the faces of that image. *)
C9_RebuiltWholesale ==
    (op = "process_image" /\ image_arg.decodes) =>
        group_face_encodings = image_arg.faces

(* The roster positions whose image file is found and yields a face: the first
   of the three file names that exists is an image with an encoding *)
Usable(i) ==
    \E e \in 1..Len(Exts) :
        /\ folder_arg[roll_numbers[i]][e].kind = "image"
        /\ folder_arg[roll_numbers[i]][e].faces # <<>>
        /\ \A d \in 1..(e - 1) : folder_arg[roll_numbers[i]][d].kind = "missing"

(* The encoding taken for a usable roster position *)
FirstEncoding(i) ==
    LET e == CHOOSE x \in 1..Len(Exts) :
                /\ folder_arg[roll_numbers[i]][x].kind # "missing"
                /\ \A d \in 1..(x - 1) : folder_arg[roll_numbers[i]][d].kind = "missing"
    IN  folder_arg[roll_numbers[i]][e].faces[1]

(* C10: after load_reference_images the reference set holds, in roster order,
   one entry for each roster position whose image file was found and yielded
   a face (its first encoding), and nothing else. *)
C10_ReplacesReferences ==
    op = "load_reference_images" =>
        LET usable == {i \in 1..Len(roll_numbers) : Usable(i)}
            rank(i) == Cardinality({j \in usable : j <= i})
        IN  /\ Len(known_face_roll_numbers) = Cardinality(usable)
            /\ Len(known_face_encodings) = Cardinality(usable)
            /\ \A i \in usable :
                  /\ known_face_roll_numbers[rank(i)] = roll_numbers[i]
                  /\ known_face_encodings[rank(i)] = FirstEncoding(i)

(* The first of the three file names of a roll number that exists in the
   folder load_reference_images read is file name e *)
FirstFile(roll, e) ==
    /\ folder_arg[roll][e].kind # "missing"
    /\ \A d \in 1..(e - 1) : folder_arg[roll][d].kind = "missing"

(* The first of the three file names of a roll number whose image gives an
   encoding is file name e *)
FirstEncodedFile(roll, e) ==
    /\ folder_arg[roll][e].kind = "image"
    /\ folder_arg[roll][e].faces # <<>>
    /\ \A d \in 1..(e - 1) :
          ~(folder_arg[roll][d].kind = "image" /\ folder_arg[roll][d].faces # <<>>)

(* The positions of the reference set that hold a roll number *)
EntriesOf(roll) ==
    {k \in 1..Len(known_face_roll_numbers) : known_face_roll_numbers[k] = roll}

(* C11, as stated, for a load that ran to its end: a roll number of the roster
   has a reference entry exactly when one of its three files gives an
   encoding; it then has one entry, the first encoding of the first such
   file in the order .jpg, .jpeg, .png. *)
C11_FirstEncodedImage ==
    (op = "load_reference_images" /\ outcome = "ok") =>
        \A roll \in Range(roll_numbers) :
            IF \E e \in 1..Len(Exts) : FirstEncodedFile(roll, e)
            THEN /\ Cardinality(EntriesOf(roll)) = 1
                 /\ \A k \in EntriesOf(roll) : \E e \in 1..Len(Exts) :
                       /\ FirstEncodedFile(roll, e)
                       /\ known_face_encodings[k] = folder_arg[roll][e].faces[1]
            ELSE EntriesOf(roll) = {}

(* C11, amended: after load_reference_images every reference entry is the
   first encoding of the first existing file of its roll number in the order
   .jpg, .jpeg, .png; a roll number whose first existing file gives no
   encoding has no entry, whatever its later files hold; and a roll number has
   at most one entry for each row it has in the roster. *)
C11_FirstExistingFile ==
    op = "load_reference_images" =>
        /\ \A k \in 1..Len(known_face_roll_numbers) :
              LET roll == known_face_roll_numbers[k]
              IN  /\ roll \in Range(roll_numbers)
                  /\ \E e \in 1..Len(Exts) :
                        /\ FirstFile(roll, e)
                        /\ folder_arg[roll][e].kind = "image"
                        /\ folder_arg[roll][e].faces # <<>>
                        /\ known_face_encodings[k] = folder_arg[roll][e].faces[1]
        /\ \A roll \in Range(roll_numbers) :
              /\ (\E e \in 1..Len(Exts) : FirstFile(roll, e) /\ folder_arg[roll][e].faces = <<>>)
                    => EntriesOf(roll) = {}
              /\ Cardinality(EntriesOf(roll)) <=
                    Cardinality({i \in 1..Len(roll_numbers) : roll_numbers[i] = roll})

(* A load in which one roll number's .jpg has no face while its .png has one,
   and it got no entry, and another roll number got the first of the two
   encodings of its .jpeg *)
C11_Witness ==
    /\ op = "load_reference_images" /\ outcome = "ok"
    /\ \E roll \in Range(roll_numbers) :
          /\ FirstFile(roll, 1)
          /\ folder_arg[roll][1].faces = <<>>
          /\ folder_arg[roll][3].faces # <<>>
          /\ EntriesOf(roll) = {}
    /\ \E k \in 1..Len(known_face_roll_numbers) :
          /\ Len(folder_arg[known_face_roll_numbers[k]][2].faces) = 2
          /\ known_face_encodings[k] = folder_arg[known_face_roll_numbers[k]][2].faces[1]

(* C12: when process_image cannot decode the group image it reports the failure
   and leaves the roster, the reference set, the stored faces and every row as
   they were. *)
C12_UndecodableLeavesStores ==
    [][(op' = "process_image" /\ ~image_arg'.decodes) =>
            /\ stores' = stores
            /\ status_label' = "Failed to load image."]_vars

(* An undecodable image met with a roster, references, stored faces and a row
   that shows 'P' *)
C12_Witness ==
    /\ op = "process_image" /\ ~image_arg.decodes
    /\ known_face_encodings # <<>>
    /\ group_face_encodings # <<>>
    /\ \E r \in 1..Len(table) : table[r].att = "P"

(* C13: in every reachable state the first column of the table is the roster,
   element for element, and every status is 'P' or 'A'. *)
C13_OneRecordPerRoster ==
    /\ Len(table) = Len(roll_numbers)
    /\ \A r \in 1..Len(table) :
          table[r].roll = roll_numbers[r] /\ table[r].att \in {"P", "A"}

(* A second roster loaded over a marked table, then marked by a pass *)
C13_Witness ==
    /\ MatchPass
    /\ Len(table) = MaxRoster
    /\ \E r \in 1..Len(table) : table[r].att = "P"
    /\ \E r \in 1..Len(table) : table[r].att = "A"

(* The references at the least distance from a detected encoding *)
Tied(e) ==
    {i \in 1..Len(known_face_encodings) :
        \A k \in 1..Len(known_face_encodings) : Dist(i, e) <= Dist(k, e)}

(* C14: when several references are at the same least distance from a detected
   encoding, within the tolerance, that encoding adds the roll number of the
   first of them in reference order and of no other: a later one of them is
   in the present set only through another detected encoding. *)
C14_FirstOfTied ==
    MatchPass =>
        \A j \in 1..Len(group_face_encodings) :
            LET tied == Tied(group_face_encodings[j])
            IN  (/\ Cardinality(tied) > 1
                 /\ \A i \in tied : Dist(i, group_face_encodings[j]) <= Tolerance) =>
                    /\ known_face_roll_numbers[Min(tied)] \in present_roll_numbers
                    /\ \A i \in tied \ {Min(tied)} :
                          known_face_roll_numbers[i] \in present_roll_numbers =>
                              \/ known_face_roll_numbers[i] = known_face_roll_numbers[Min(tied)]
                              \/ \E k \in 1..Len(group_face_encodings) :
                                    /\ k # j
                                    /\ Min(Tied(group_face_encodings[k])) \in EntriesOf(known_face_roll_numbers[i])
                                    /\ Dist(i, group_face_encodings[k]) <= Tolerance

(* A pass in which a detected encoding is equally near to the references of
   two roll numbers: the first is marked and the second is not *)
C14_Witness ==
    /\ MatchPass
    /\ \E j \in 1..Len(group_face_encodings) :
          LET tied == Tied(group_face_encodings[j])
          IN  /\ Cardinality(tied) > 1
              /\ \A i \in tied : Dist(i, group_face_encodings[j]) <= Tolerance
              /\ known_face_roll_numbers[Min(tied)] \in present_roll_numbers
              /\ \E i \in tied : known_face_roll_numbers[i] \notin present_roll_numbers
              /\ \E r \in 1..Len(table) :
                    table[r].att = "P" /\ table[r].roll = known_face_roll_numbers[Min(tied)]

(* C15: a handler run a second time on the same input, with no other handler
   in between, leaves roll_numbers, the reference lists, the stored faces and
   the table as its first run left them. *)
C15_Idempotent ==
    [][sequel' = "repeat" => stores' = stores]_vars

(* process_image ran twice on the same image with two references held: the
   rows that show 'P' are the ones its first run marked *)
C15_Witness ==
    /\ sequel = "repeat"
    /\ op = "process_image"
    /\ outcome = "ok"
    /\ MarkedPresent(table) # {}
    /\ marked_before = MarkedPresent(table)
    /\ Len(known_face_encodings) = 2

(* C16: save_attendance changes no store; when it writes the file, the file
   holds one (roll number, status) pair per table row, in the table's order,
   the status being the 'P' or 'A' the row shows; with an empty roster it
   writes nothing. *)
C16_ExportsEveryRow ==
    [][op' = "save_attendance" =>
            /\ stores' = stores
            /\ outcome' = "ok" =>
                    /\ Len(written') = Len(table)
                    /\ \A r \in 1..Len(table) :
                          /\ written'[r][1] = table[r].roll
                          /\ written'[r][2] = table[r].att
                          /\ written'[r][2] \in {"P", "A"}
            /\ roll_numbers = <<>> => outcome' = "noroster" /\ written' = <<>>]_vars

(* save_attendance wrote a file with a 'P' pair and an 'A' pair *)
C16_Witness ==
    /\ op = "save_attendance"
    /\ outcome = "ok"
    /\ \E r \in 1..Len(written) : written[r][2] = "P"
    /\ \E r \in 1..Len(written) : written[r][2] = "A"
    /\ written = [r \in 1..Len(table) |-> <<table[r].roll, table[r].att>>]

(* The step in which load_roll_numbers opens the file save_attendance has just
   written *)
Reimport ==
    /\ op = "save_attendance"
    /\ outcome = "ok"
    /\ op' = "load_roll_numbers"
    /\ csv_arg' = to_csv(written)

(* C17 as stated: loading the file save_attendance wrote gives back the same
   (roll number, status) pairs in the same order. *)
C17_RoundTrip ==
    [][Reimport =>
            /\ Len(table') = Len(written)
            /\ \A r \in 1..Len(written) :
                  table'[r].roll = written[r][1] /\ table'[r].att = written[r][2]]_vars

(* C17 amended: loading the file save_attendance wrote gives back the same
   roll numbers in the same order, and every status is 'A' whatever the file's
   'Attendance' column holds. *)
C17_RoundTripRollNumbers ==
    [][Reimport =>
            /\ roll_numbers' = roll_numbers
            /\ Len(table') = Len(written)
            /\ \A r \in 1..Len(written) :
                  table'[r].roll = written[r][1] /\ table'[r].att = "A"]_vars

(* load_roll_numbers opened an attendance file that held a 'P' pair and two
   different roll numbers *)
C17_Witness ==
    /\ op = "load_roll_numbers"
    /\ outcome = "ok"
    /\ csv_arg.kind = "exported"
    /\ sequel = "other"
    /\ marked_before # {}
    /\ Len(table) = 2
    /\ table[1].roll # table[2].roll

(* The table process_image leaves for an image that shows the faces f, given
   the roster, the references and the table as they are *)
TableOfProcessImage(f) ==
    IF f = <<>> \/ IndexErrors(known_face_encodings, known_face_roll_numbers, f) # {}
    THEN table
    ELSE process_image_marked(table, process_image_present(f))

(* C18: update_attendance run directly after a process_image that ran to its
   end leaves the table as it is, and whatever the references and the stored
   faces, the table update_attendance leaves is the one process_image leaves
   for an image showing exactly the stored faces. *)
C18_SameMatcher ==
    [][op' = "update_attendance" =>
            /\ (op = "process_image" /\ outcome = "ok") => table' = table
            /\ table' = TableOfProcessImage(group_face_encodings)]_vars

(* update_attendance ran directly after process_image: one row shows 'P' and
   another 'A', and one stored face is farther than the tolerance from every
   reference *)
C18_Witness ==
    /\ op = "update_attendance"
    /\ outcome = "ok"
    /\ sequel = "after_process_image"
    /\ \E r \in 1..Len(table) : table[r].att = "P"
    /\ \E r \in 1..Len(table) : table[r].att = "A"
    /\ \E j \in 1..Len(group_face_encodings) :
          \A i \in 1..Len(known_face_encodings) : Dist(i, group_face_encodings[j]) > Tolerance

(* C19: update_attendance called while no detected faces are stored only sets
   the status text to 'No group image processed yet.': roll_numbers, the
   reference lists, the stored faces and every row stay as they are. *)
C19_NoGroupImage ==
    [][(op' = "update_attendance" /\ group_face_encodings = <<>>) =>
            /\ stores' = stores
            /\ status_label' = "No group image processed yet."
            /\ outcome' = "noimage"]_vars

(* update_attendance found no stored faces, with a roster, its rows and its
   references loaded *)
C19_Witness ==
    /\ op = "update_attendance"
    /\ outcome = "noimage"
    /\ status_label = "No group image processed yet."
    /\ group_face_encodings = <<>>
    /\ Len(table) = MaxRoster
    /\ known_face_encodings # <<>>

(* known_face_encodings and known_face_roll_numbers go together: they are as
   long as each other, load_reference_images leaves at each position the roll
   number and the first encoding of that roll number's image, and no detected
   encoding makes a matching pass index outside either list *)
ParallelLists ==
    /\ Len(known_face_encodings) = Len(known_face_roll_numbers)
    /\ op = "load_reference_images" =>
            \A i \in 1..Len(known_face_roll_numbers) :
                LET file == Resolved(folder_arg, known_face_roll_numbers[i])
                IN  /\ known_face_roll_numbers[i] \in Range(roll_numbers)
                    /\ file.kind = "image"
                    /\ file.faces # <<>>
                    /\ known_face_encodings[i] = file.faces[1]
    /\ \A f \in SeqsUpTo(FaceEncodings, MaxFaces) :
            IndexErrors(known_face_encodings, known_face_roll_numbers, f) = {}
    /\ op \in {"process_image", "update_attendance"} => outcome # "raised"

(* C20: in every reachable state the two reference lists have the same length
   and position i of one belongs to the roll number at position i of the
   other: only load_reference_images writes them, pairing each roll number
   with its own image's encoding, so the best match index is always a valid
   index into known_face_roll_numbers. *)
C20_ParallelLists ==
    /\ []ParallelLists
    /\ [][op' # "load_reference_images" =>
                UNCHANGED <<known_face_encodings, known_face_roll_numbers>>]_vars

(* A pass marked the roll number at position 2 of the reference lists: a
   detected encoding was nearest to the second encoding and within the
   tolerance *)
C20_Witness ==
    /\ MatchPass
    /\ Len(known_face_encodings) = 2
    /\ Len(known_face_roll_numbers) = 2
    /\ known_face_roll_numbers[1] # known_face_roll_numbers[2]
    /\ \E j \in 1..Len(group_face_encodings) :
          /\ Nearest(2, group_face_encodings[j])
          /\ Dist(2, group_face_encodings[j]) <= Tolerance
    /\ known_face_roll_numbers[2] \in present_roll_numbers
    /\ known_face_roll_numbers[1] \notin present_roll_numbers

====
